---- MODULE Spec2Model ----
(***************************************************************************)
(* The onboarding draft-persistence layer: the OnboardingDB wrapper around *)
(* the IndexedDB object store formDrafts (src/src/utils/onboardingDB.ts),  *)
(* the onboarding service built on it and on localStorage                  *)
(* (src/unnamed/part_001) and the mount-time load of the useOnboardingForm *)
(* hook (src/unnamed/part_000).                                            *)
(*                                                                         *)
(* Abstractions.  A form-data object is a record: form names the contents  *)
(* of its fields (0 is the hook's default claims record), saveType is the  *)
(* saveType field the service merges in ("none" when the field is absent). *)
(* The ISO timestamps (timestamp, lastSaved, completedAt) are left out: no *)
(* code reads them.  A localStorage item is absent, a JSON text or a text  *)
(* JSON.parse rejects.  IndexedDB and the network are the environment: an  *)
(* open, a put, a get, a fetch and saveProfileData each succeed or fail,   *)
(* chosen by the action's inputs; localStorage calls succeed.  A service   *)
(* call runs to completion in one step, except that initializeOnboardingDB *)
(* waits for the open request, during which every other call may run.      *)
(* The page holds one form hook, which may be unmounted once its load has  *)
(* finished and mounted again with fresh state, any number of times.       *)
(***************************************************************************)
EXTENDS Naturals, FiniteSets

\* Number of distinct field contents a caller can pass (besides the defaults).
MaxForm == 2

VARIABLES
    dbInstance,   \* part_001:5   the module-level instance exists
    db,           \* onboardingDB.ts:4   its handle: "null" or "open"
    initState,    \* the open request: "idle", "pending", "ok" or "failed"
    initCaller,   \* who awaits the pending open request: "app" or "hook"
    instances,    \* how many OnboardingDB objects were constructed
    opens,        \* how many times indexedDB.open was called
    store,        \* the records of the object store formDrafts
    lsProgress,   \* localStorage item onboardingProgress
    lsComplete,   \* localStorage item onboardingComplete: "absent" or "true"
    lastSaved,    \* formData of the latest saveDraft that returned true
    pc,           \* the hook: position of loadData
    dbReady,      \* the hook: the dbReady state
    formData,     \* the hook: the formData state
    lastCall      \* the call made by the latest step, and how it ended

vars == <<dbInstance, db, initState, initCaller, instances, opens, store,
          lsProgress, lsComplete, lastSaved, pc, dbReady, formData, lastCall>>

----------------------------------------------------------------------------
\* Values

Null == [kind |-> "null", form |-> 0, saveType |-> "none"]
EmptyObj == [kind |-> "empty", form |-> 0, saveType |-> "none"]
MkObj(f, s) == [kind |-> "object", form |-> f, saveType |-> s]
DefaultClaims == MkObj(0, "none")
\* What a caller passes as formData.
InputData == {MkObj(f, "none") : f \in 1..MaxForm}
Truthy(v) == v.kind # "null"

\* {...formData, lastSaved, saveType: t}
WithSaveType(data, t) == [data EXCEPT !.saveType = t]

\* localStorage items
Absent == [kind |-> "absent", val |-> Null]
Garbage == [kind |-> "garbage", val |-> Null]
Stringify(v) == [kind |-> "json", val |-> v]
ParseThrows(s) == s.kind = "garbage"
Parse(s) == s.val

----------------------------------------------------------------------------
\* OnboardingDB (src/src/utils/onboardingDB.ts)

\* Changed: the record is keyed by its contents, one key per form.
draftDataKeyedByForm(data) ==
    [id |-> IF data.form = 1 THEN "current-draft" ELSE "other-draft",
     data |-> data]

\* The record saveDraft writes: { id: 'current-draft', data, timestamp }.
draftData(data) == [id |-> "current-draft", data |-> data]

\* IDBObjectStore.put on a store whose keyPath is 'id': the record replaces
\* the one that has its key.
Put(st, rec) == {r \in st : r.id # rec.id} \cup {rec}

\* IDBObjectStore.get: the records under the key (none: undefined).
Get(st, key) == {r \in st : r.id = key}

\* Changed: the catch block reports success.
saveDraftSwallowsError(dbh, st, data, putOk) ==
    IF dbh = "null"
    THEN [ret |-> FALSE, store |-> st, tx |-> FALSE]
    ELSE IF putOk
         THEN [ret |-> TRUE, store |-> Put(st, draftData(data)), tx |-> TRUE]
         ELSE [ret |-> TRUE, store |-> st, tx |-> TRUE]

\* Changed: the old draft is deleted in a transaction of its own before the
\* put, so a failed put leaves the store empty.
saveDraftClearsFirst(dbh, st, data, putOk) ==
    IF dbh = "null"
    THEN [ret |-> FALSE, store |-> st, tx |-> FALSE]
    ELSE IF putOk
         THEN [ret |-> TRUE, store |-> Put(st, draftData(data)), tx |-> TRUE]
         ELSE [ret |-> FALSE, store |-> {}, tx |-> TRUE]

\* saveDraft(data) on an instance whose handle is dbh.  putOk: the
\* transaction and the put request succeed.
saveDraft(dbh, st, data, putOk) ==
    IF dbh = "null"
    THEN [ret |-> FALSE, store |-> st, tx |-> FALSE]
    ELSE IF putOk
         THEN [ret |-> TRUE, store |-> Put(st, draftData(data)), tx |-> TRUE]
         ELSE [ret |-> FALSE, store |-> st, tx |-> TRUE]

\* loadDraft() on an instance whose handle is dbh.  getOk: the transaction
\* and the get request succeed.
loadDraft(dbh, st, getOk) ==
    IF dbh = "null"
    THEN [ret |-> Null, tx |-> FALSE, err |-> FALSE]
    ELSE IF ~getOk
         THEN [ret |-> Null, tx |-> TRUE, err |-> TRUE]
         ELSE LET result == Get(st, "current-draft")
              IN IF result # {}
                 THEN [ret |-> (CHOOSE r \in result : TRUE).data,
                       tx |-> TRUE, err |-> FALSE]
                 ELSE [ret |-> Null, tx |-> TRUE, err |-> FALSE]

----------------------------------------------------------------------------
\* The onboarding service (src/unnamed/part_001)

\* The outcome of a call that changed nothing: what it returns (ret: "void",
\* "true", "false", "null", "value" or "throw"; val: the value), the storage
\* after it, and what it did on the way: sd/sdArg the result and argument of
\* its saveDraft, readErr a failed read of the store, fallback the
\* localStorage branch of an auto-save, lsRead a read of onboardingProgress,
\* profile the saveProfileData call, api the status request and how it
\* ended, tx a started
\* transaction, created a constructed OnboardingDB.
Outcome(st, lsP, lsC) ==
    [ret |-> "void", val |-> Null, store |-> st, lsProgress |-> lsP,
     lsComplete |-> lsC, sd |-> "none", sdArg |-> Null, readErr |-> FALSE,
     fallback |-> FALSE, lsRead |-> FALSE, profile |-> "none", api |-> "none",
     tx |-> FALSE, created |-> FALSE]

BoolStr(b) == IF b THEN "true" ELSE "false"

\* Changed: initialise again until the database is open.
initializeNeededUntilOpen(inst, dbh) == dbh = "null"

\* if (!dbInstance): whether initializeOnboardingDB constructs and opens.
initializeNeeded(inst, dbh) == ~inst

\* Changed: the draft is never used.
useDraftNever(inst, progress) == FALSE

\* if (dbInstance) { progress = await loadDraft(); if (progress) ... }:
\* whether getOnboardingProgress returns the loaded draft.
useDraft(inst, progress) == inst /\ Truthy(progress)

\* getOnboardingProgress()
getOnboardingProgress(inst, dbh, st, lsP, lsC, getOk, putOk) ==
    LET ld == loadDraft(dbh, st, getOk)
        base == [Outcome(st, lsP, lsC) EXCEPT !.ret = "null"]
    IN IF useDraft(inst, ld.ret)
       THEN [base EXCEPT !.ret = "value", !.val = ld.ret, !.tx = TRUE]
       ELSE LET b2 == [base EXCEPT !.lsRead = TRUE,
                                   !.tx = inst /\ ld.tx,
                                   !.readErr = inst /\ ld.err]
            IN IF lsP.kind = "absent" THEN b2
               ELSE IF ParseThrows(lsP) THEN b2
               ELSE LET parsed == Parse(lsP)
                    IN IF inst
                       THEN LET sd == saveDraft(dbh, st, parsed, putOk)
                            IN [b2 EXCEPT !.ret = "value", !.val = parsed,
                                          !.store = sd.store,
                                          !.sd = BoolStr(sd.ret),
                                          !.sdArg = parsed,
                                          !.tx = b2.tx \/ sd.tx,
                                          !.lsProgress = Absent]
                       ELSE [b2 EXCEPT !.ret = "value", !.val = parsed]

\* Changed: no localStorage backup when saveDraft returns false.
saveOnboardingProgressNoBackup(inst, dbh, st, lsP, lsC, data, putOk) ==
    LET base == [Outcome(st, lsP, lsC) EXCEPT !.ret = "true"]
    IN IF inst
       THEN LET arg == WithSaveType(data, "progress")
                sd == saveDraft(dbh, st, arg, putOk)
            IN [base EXCEPT !.sd = BoolStr(sd.ret), !.sdArg = arg,
                            !.tx = sd.tx, !.store = sd.store]
       ELSE [base EXCEPT !.fallback = TRUE, !.lsProgress = Stringify(data)]

\* Changed: the auto-save also saves the profile to Dataverse, as it did
\* before the call was removed.
saveOnboardingProgressWithDataverse(inst, dbh, st, lsP, lsC, data, putOk) ==
    LET base == [Outcome(st, lsP, lsC) EXCEPT !.ret = "true",
                                              !.profile = "ok"]
        viaLocalStorage(b) ==
            [b EXCEPT !.fallback = TRUE, !.lsProgress = Stringify(data)]
    IN IF inst
       THEN LET arg == WithSaveType(data, "progress")
                sd == saveDraft(dbh, st, arg, putOk)
                b2 == [base EXCEPT !.sd = BoolStr(sd.ret), !.sdArg = arg,
                                   !.tx = sd.tx]
            IN IF sd.ret
               THEN [b2 EXCEPT !.store = sd.store]
               ELSE viaLocalStorage(b2)
       ELSE viaLocalStorage(base)

\* saveOnboardingProgress(data)
saveOnboardingProgress(inst, dbh, st, lsP, lsC, data, putOk) ==
    LET base == [Outcome(st, lsP, lsC) EXCEPT !.ret = "true"]
        viaLocalStorage(b) ==
            [b EXCEPT !.fallback = TRUE, !.lsProgress = Stringify(data)]
    IN IF inst
       THEN LET arg == WithSaveType(data, "progress")
                sd == saveDraft(dbh, st, arg, putOk)
                b2 == [base EXCEPT !.sd = BoolStr(sd.ret), !.sdArg = arg,
                                   !.tx = sd.tx]
            IN IF sd.ret
               THEN [b2 EXCEPT !.store = sd.store]
               ELSE viaLocalStorage(b2)
       ELSE viaLocalStorage(base)

\* Object.keys(partialData).length > 0: some field holds a non-blank value.
HasFields(data) == data.kind = "object"

\* saveOnboardingProgressManual(data).  profileOk: saveProfileData resolves.
saveOnboardingProgressManual(inst, dbh, st, lsP, lsC, data, putOk, pOk) ==
    LET profileOk == pOk
        r == saveOnboardingProgress(inst, dbh, st, lsP, lsC, data, putOk)
    IN IF ~HasFields(data) THEN r
       ELSE IF profileOk THEN [r EXCEPT !.profile = "ok"]
       ELSE [r EXCEPT !.profile = "fail", !.ret = "throw"]

\* Changed: the flag is set before saveProfileData is awaited.
markCompleteBeforeSave(lsC, profileOk) == "true"

\* localStorage.setItem("onboardingComplete", "true"), reached only after
\* await saveProfileData(...) has resolved.
markComplete(lsC, profileOk) ==
    IF profileOk THEN "true" ELSE lsC

\* saveOnboardingData(data)
saveOnboardingData(inst, dbh, st, lsP, lsC, data, putOk, profileOk) ==
    LET cleanedData == data
        arg == WithSaveType(cleanedData, "final")
        sd == saveDraft(dbh, st, arg, putOk)
        b1 == IF inst
              THEN [Outcome(st, lsP, lsC) EXCEPT
                       !.store = sd.store, !.sd = BoolStr(sd.ret),
                       !.sdArg = arg, !.tx = sd.tx]
              ELSE Outcome(st, lsP, lsC)
    IN [b1 EXCEPT !.profile = IF profileOk THEN "ok" ELSE "fail",
                  !.lsComplete = markComplete(lsC, profileOk),
                  !.ret = IF profileOk THEN "true" ELSE "throw"]

\* clearOnboardingData()
clearOnboardingData(inst, dbh, st, lsP, lsC) ==
    [Outcome(st, lsP, lsC) EXCEPT !.lsProgress = Absent]

\* Changed: a failed status request counts as complete.
checkOnboardingStatusFailOpen(st, lsP, lsC, apiOutcome) ==
    IF lsC = "true"
    THEN [Outcome(st, lsP, lsC) EXCEPT !.ret = "true"]
    ELSE [Outcome(st, lsP, lsC) EXCEPT
             !.api = apiOutcome,
             !.ret = IF apiOutcome \in {"true", "false"} THEN apiOutcome
                     ELSE "true"]

\* checkOnboardingStatus().  apiOutcome: "true" or "false" the isComplete of
\* the response, "fetchFail" or "jsonFail" a rejected fetch or json().
checkOnboardingStatus(st, lsP, lsC, apiOutcome) ==
    IF lsC = "true"
    THEN [Outcome(st, lsP, lsC) EXCEPT !.ret = "true"]
    ELSE [Outcome(st, lsP, lsC) EXCEPT
             !.api = apiOutcome,
             !.ret = IF apiOutcome \in {"true", "false"} THEN apiOutcome
                     ELSE "false"]

----------------------------------------------------------------------------
\* The form hook (src/unnamed/part_000)

\* Changed: no default claims.
loadDataFormDataNoDefault(savedProgress) == savedProgress

\* What loadData passes to setFormData once getOnboardingProgress returned.
loadDataFormData(savedProgress) ==
    IF Truthy(savedProgress) THEN savedProgress ELSE DefaultClaims

----------------------------------------------------------------------------
\* State machine

\* The record of a call: who made it ("app" or "hook"), its argument,
\* how it ended (see Outcome) and, for saveDraft, the draft stored before it.
Log(op, who, arg, r) ==
    [op |-> op, who |-> who, arg |-> arg, ret |-> r.ret, val |-> r.val,
     sd |-> r.sd, sdArg |-> r.sdArg, readErr |-> r.readErr,
     fallback |-> r.fallback, lsRead |-> r.lsRead, profile |-> r.profile,
     api |-> r.api, tx |-> r.tx, created |-> r.created, pre |-> Null]

Here == Outcome(store, lsProgress, lsComplete)

\* The storage after a call that ended as r.
Apply(r) ==
    /\ store' = r.store
    /\ lsProgress' = r.lsProgress
    /\ lsComplete' = r.lsComplete
    /\ lastSaved' = IF r.sd = "true" THEN r.sdArg ELSE lastSaved

StoredDraft(st) ==
    IF Get(st, "current-draft") = {} THEN Null
    ELSE (CHOOSE r \in Get(st, "current-draft") : TRUE).data

\* The outcomes of a put or a get on the handle dbh: without a handle no
\* request is made.
Requests(dbh) == IF dbh = "open" THEN BOOLEAN ELSE {FALSE}

\* The drafts an earlier visit may have left in the store.
PriorDrafts == {WithSaveType(d, "progress") : d \in InputData}

\* A page load: nothing is initialised; the browser's storage holds what
\* earlier visits left.
Init ==
    /\ dbInstance = FALSE
    /\ db = "null"
    /\ initState = "idle"
    /\ initCaller = "app"
    /\ instances = 0
    /\ opens = 0
    /\ \E d \in PriorDrafts \cup {Null} :
          /\ store = IF d = Null THEN {} ELSE {draftData(d)}
          /\ lastSaved = d
    /\ lsProgress \in {Absent, Garbage} \cup {Stringify(d) : d \in InputData}
    /\ lsComplete \in {"absent", "true"}
    /\ pc = "unmounted"
    /\ dbReady = FALSE
    /\ formData = EmptyObj
    /\ lastCall = Log("none", "app", Null, Outcome({}, Absent, "absent"))

\* dbInstance = new OnboardingDB(); dbInstance.init() calls indexedDB.open.
Construct(who) ==
    /\ dbInstance' = TRUE
    /\ db' = "null"
    /\ initState' = "pending"
    /\ initCaller' = who
    /\ instances' = instances + 1
    /\ opens' = opens + 1

\* loadData from the point where await initializeOnboardingDB() has
\* resolved, with the handle dbh.
LoadDataResume(dbh, getOk, putOk) ==
    \E r \in {getOnboardingProgress(dbInstance', dbh, store, lsProgress,
                                    lsComplete, getOk, putOk)} :
       /\ dbReady' = TRUE
       /\ formData' = loadDataFormData(r.val)
       /\ pc' = "done"
       /\ Apply(r)
       /\ lastCall' = Log("loadData", "hook", Null, r)

\* initializeOnboardingDB() called by the app.
InitializeOnboardingDB ==
    IF initializeNeeded(dbInstance, db)
    THEN /\ Construct("app")
         /\ lastCall' = Log("initializeOnboardingDB", "app", Null,
                            [Here EXCEPT !.ret = "pending", !.created = TRUE])
         /\ UNCHANGED <<store, lsProgress, lsComplete, lastSaved, pc, dbReady,
                        formData>>
    ELSE /\ lastCall' = Log("initializeOnboardingDB", "app", Null, Here)
         /\ UNCHANGED <<dbInstance, db, initState, initCaller, instances,
                        opens, store, lsProgress, lsComplete, lastSaved, pc,
                        dbReady, formData>>

\* The hook is mounted: its effect runs loadData.
Mount ==
    /\ pc = "unmounted"
    /\ IF initializeNeeded(dbInstance, db)
       THEN /\ Construct("hook")
            /\ pc' = "awaitInit"
            /\ lastCall' = Log("loadData", "hook", Null,
                               [Here EXCEPT !.ret = "pending",
                                            !.created = TRUE])
            /\ UNCHANGED <<store, lsProgress, lsComplete, lastSaved, dbReady,
                           formData>>
       ELSE /\ UNCHANGED <<dbInstance, db, initState, initCaller, instances,
                           opens>>
            /\ \E getOk, putOk \in Requests(db) :
                  LoadDataResume(db, getOk, putOk)

\* The hook is unmounted after its load: the next mount starts from the
\* initial useState values.
Unmount ==
    /\ pc \in {"done", "caught"}
    /\ pc' = "unmounted"
    /\ dbReady' = FALSE
    /\ formData' = EmptyObj
    /\ lastCall' = Log("unmount", "hook", Null, Here)
    /\ UNCHANGED <<dbInstance, db, initState, initCaller, instances, opens,
                   store, lsProgress, lsComplete, lastSaved>>

\* request.onsuccess of the open request.
OpenSucceeds ==
    /\ initState = "pending"
    /\ db' = "open"
    /\ initState' = "ok"
    /\ initCaller' = "app"
    /\ UNCHANGED <<dbInstance, instances, opens>>
    /\ IF initCaller = "hook"
       THEN \E getOk, putOk \in BOOLEAN :
               LoadDataResume("open", getOk, putOk)
       ELSE /\ lastCall' = Log("initResolved", "app", Null, Here)
            /\ UNCHANGED <<store, lsProgress, lsComplete, lastSaved, pc,
                           dbReady, formData>>

\* request.onerror of the open request: init rejects; a hook catches.
OpenFails ==
    /\ initState = "pending"
    /\ initState' = "failed"
    /\ initCaller' = "app"
    /\ UNCHANGED <<dbInstance, db, instances, opens, store, lsProgress,
                   lsComplete, lastSaved, dbReady>>
    /\ IF initCaller = "hook"
       THEN /\ pc' = "caught"
            /\ formData' = DefaultClaims
            /\ lastCall' = Log("loadData", "hook", Null,
                               [Here EXCEPT !.ret = "caught"])
       ELSE /\ lastCall' = Log("initRejected", "app", Null,
                               [Here EXCEPT !.ret = "throw"])
            /\ UNCHANGED <<pc, formData>>

Service(op, arg, outcome) ==
    /\ \E r \in {outcome} :
          /\ Apply(r)
          /\ lastCall' = Log(op, "app", arg, r)
    /\ UNCHANGED <<dbInstance, db, initState, initCaller, instances, opens,
                   pc, dbReady, formData>>

\* dbInstance.saveDraft(data)
SaveDraft(data) ==
    /\ dbInstance
    /\ \E putOk \in Requests(db) :
          \E sd \in {saveDraft(db, store, data, putOk)} :
          \E r \in {[Here EXCEPT !.ret = BoolStr(sd.ret), !.store = sd.store,
                                 !.sd = BoolStr(sd.ret), !.sdArg = data,
                                 !.tx = sd.tx]} :
             /\ Apply(r)
             /\ lastCall' = [Log("saveDraft", "app", data, r) EXCEPT
                                !.pre = StoredDraft(store)]
             /\ UNCHANGED <<dbInstance, db, initState, initCaller, instances,
                            opens, pc, dbReady, formData>>

\* dbInstance.loadDraft()
LoadDraft ==
    /\ dbInstance
    /\ \E getOk \in Requests(db) :
          LET ld == loadDraft(db, store, getOk)
          IN Service("loadDraft", Null,
                     [Here EXCEPT !.ret = IF Truthy(ld.ret) THEN "value"
                                          ELSE "null",
                                  !.val = ld.ret, !.tx = ld.tx,
                                  !.readErr = ld.err])

GetOnboardingProgress ==
    \E getOk, putOk \in Requests(db) :
       Service("getOnboardingProgress", Null,
               getOnboardingProgress(dbInstance, db, store, lsProgress,
                                     lsComplete, getOk, putOk))

SaveOnboardingProgress(data) ==
    \E putOk \in Requests(db) :
       Service("saveOnboardingProgress", data,
               saveOnboardingProgress(dbInstance, db, store, lsProgress,
                                      lsComplete, data, putOk))

SaveOnboardingProgressManual(data) ==
    \E putOk \in Requests(db), profileOk \in BOOLEAN :
       Service("saveOnboardingProgressManual", data,
               saveOnboardingProgressManual(dbInstance, db, store, lsProgress,
                                            lsComplete, data, putOk,
                                            profileOk))

SaveOnboardingData(data) ==
    \E putOk \in Requests(db), profileOk \in BOOLEAN :
       Service("saveOnboardingData", data,
               saveOnboardingData(dbInstance, db, store, lsProgress,
                                  lsComplete, data, putOk, profileOk))

ClearOnboardingData ==
    Service("clearOnboardingData", Null,
            clearOnboardingData(dbInstance, db, store, lsProgress, lsComplete))

CheckOnboardingStatus ==
    \E apiOutcome \in {"true", "false", "fetchFail", "jsonFail"} :
       Service("checkOnboardingStatus", Null,
               checkOnboardingStatus(store, lsProgress, lsComplete,
                                     apiOutcome))

Next ==
    \/ InitializeOnboardingDB
    \/ Mount
    \/ Unmount
    \/ OpenSucceeds
    \/ OpenFails
    \/ \E d \in InputData : SaveDraft(d)
    \/ LoadDraft
    \/ GetOnboardingProgress
    \/ \E d \in InputData : SaveOnboardingProgress(d)
    \/ \E d \in InputData : SaveOnboardingProgressManual(d)
    \/ \E d \in InputData : SaveOnboardingData(d)
    \/ ClearOnboardingData
    \/ CheckOnboardingStatus

Spec == Init /\ [][Next]_vars

----------------------------------------------------------------------------
\* Properties

\* C1: the localStorage flag onboardingComplete changes only in a step of
\* saveOnboardingData whose saveProfileData resolved, which sets it to
\* "true"; every other call, a failed saveOnboardingData included, leaves
\* the flag as it was.
C1_FlagOnlyByFinalSave ==
    [][lsComplete' # lsComplete =>
          /\ lastCall'.op = "saveOnboardingData"
          /\ lastCall'.profile = "ok"
          /\ lastCall'.ret = "true"
          /\ lsComplete' = "true"]_vars

\* A saveOnboardingData whose Dataverse save failed after the draft was
\* stored: the flag is still absent.
C1_Witness ==
    /\ lastCall.op = "saveOnboardingData"
    /\ lastCall.ret = "throw"
    /\ lastCall.sd = "true"
    /\ lsComplete = "absent"

\* C2: whenever a getOnboardingProgress (called directly or by the hook's
\* load) removes the legacy key onboardingProgress, the IndexedDB draft
\* holds the progress that was under the key.
C2_MigrationLosesNothing ==
    [][(/\ lastCall'.op \in {"getOnboardingProgress", "loadData"}
        /\ lsProgress # Absent
        /\ lsProgress' = Absent)
       => StoredDraft(store') = Parse(lsProgress)]_vars

\* C3: the store formDrafts holds at most one record, keyed 'current-draft',
\* and after a saveDraft that returned true it holds exactly the record of
\* that call.
C3_SingleRecord ==
    /\ Cardinality(store) <= 1
    /\ \A r \in store : r.id = "current-draft"
    /\ (lastCall.op = "saveDraft" /\ lastCall.ret = "true")
          => store = {[id |-> "current-draft", data |-> lastCall.arg]}

\* A successful saveDraft over a different earlier draft.
C3_Witness ==
    /\ lastCall.op = "saveDraft"
    /\ lastCall.ret = "true"
    /\ lastCall.pre # Null
    /\ lastCall.pre # lastCall.arg

\* C4 as claimed: on an opened database loadDraft returns the formData of
\* the latest saveDraft that returned true, null when there was none.
C4_RoundTrip ==
    (lastCall.op = "loadDraft" /\ db = "open") => lastCall.val = lastSaved

\* C4 amended: on an opened database a loadDraft whose read succeeds returns
\* the formData of the latest saveDraft that returned true (null when there
\* was none); a loadDraft whose read fails returns null.
C4_RoundTripUnlessReadFails ==
    (lastCall.op = "loadDraft" /\ db = "open") =>
        IF lastCall.readErr THEN lastCall.val = Null
        ELSE lastCall.val = lastSaved

\* A loadDraft that returned the stored draft of an opened database.
C4_Witness ==
    /\ lastCall.op = "loadDraft"
    /\ db = "open"
    /\ ~lastCall.readErr
    /\ lastCall.val # Null
    /\ lastCall.val = lastSaved

\* C5: after a saveOnboardingProgress(formData) that returned true, formData
\* is the IndexedDB draft (with saveType 'progress' merged in) or the
\* localStorage item onboardingProgress; the localStorage branch was taken
\* exactly when there is no database instance or saveDraft returned false.
C5_AutoSavePersists ==
    (lastCall.op = "saveOnboardingProgress" /\ lastCall.ret = "true") =>
        /\ IF lastCall.fallback
           THEN lsProgress = Stringify(lastCall.arg)
           ELSE StoredDraft(store) = WithSaveType(lastCall.arg, "progress")
        /\ lastCall.fallback <=> (~dbInstance \/ lastCall.sd = "false")

\* An auto-save that went to localStorage because saveDraft returned false
\* on an opened database.
C5_Witness ==
    /\ lastCall.op = "saveOnboardingProgress"
    /\ lastCall.ret = "true"
    /\ lastCall.fallback
    /\ db = "open"
    /\ lastCall.sd = "false"

\* C6: dbReady = true implies that the shared instance's database has been
\* opened (its db handle is non-null).
C6_DbReadyImpliesOpen == dbReady => db = "open"

\* C7: at most one OnboardingDB is constructed and indexedDB.open is called
\* at most once; an initializeOnboardingDB call that finds an instance
\* leaves the instance, its handle and its open request as they were.
C7_InitialisedOnce ==
    /\ [](instances <= 1 /\ opens <= 1 /\ (dbInstance <=> instances = 1))
    /\ [][(dbInstance /\ lastCall'.op = "initializeOnboardingDB")
            => UNCHANGED <<dbInstance, db, initState, instances, opens>>]_vars

\* An initializeOnboardingDB call after the only open request has failed:
\* nothing is constructed or opened again.
C7_Witness ==
    /\ lastCall.op = "initializeOnboardingDB"
    /\ ~lastCall.created
    /\ initState = "failed"
    /\ instances = 1
    /\ opens = 1

\* Whether a getOnboardingProgress step can read a draft: there is an
\* instance, its database is open, the store holds a draft and the read of
\* this step did not fail.
C8_DraftRead ==
    /\ dbInstance
    /\ db = "open"
    /\ StoredDraft(store) # Null
    /\ ~lastCall'.readErr

\* What C8 says of a getOnboardingProgress step whatever the draft: null
\* when there is neither a draft nor legacy progress, no exception, and
\* null with localStorage and the store unchanged on unparsable legacy JSON.
C8_Rest ==
    /\ (StoredDraft(store) = Null /\ lsProgress = Absent)
          => lastCall'.ret = "null"
    /\ lastCall'.ret \in {"value", "null"}
    /\ (lastCall'.lsRead /\ lsProgress = Garbage)
          => /\ lastCall'.ret = "null"
             /\ UNCHANGED <<lsProgress, store>>

\* C8 as claimed: getOnboardingProgress returns the IndexedDB draft whenever
\* (there is an instance and) a draft exists, leaving localStorage unread
\* and unchanged; it reads onboardingProgress only when there is no instance
\* or no draft; it returns null when neither exists; it never throws.
C8_PrefersStore ==
    [][lastCall'.op = "getOnboardingProgress" =>
          /\ (dbInstance /\ StoredDraft(store) # Null)
                => /\ lastCall'.ret = "value"
                   /\ lastCall'.val = StoredDraft(store)
                   /\ ~lastCall'.lsRead
                   /\ lsProgress' = lsProgress
          /\ lastCall'.lsRead => (~dbInstance \/ StoredDraft(store) = Null)
          /\ C8_Rest]_vars

\* C8 amended: getOnboardingProgress returns the IndexedDB draft whenever
\* the instance's database is open, a draft exists and its read succeeds,
\* leaving localStorage unread and unchanged; it reads onboardingProgress
\* exactly when there is no instance, the database is not open, there is no
\* draft or the read failed; the rest as claimed.
C8_PrefersReadableStore ==
    [][lastCall'.op = "getOnboardingProgress" =>
          /\ C8_DraftRead
                => /\ lastCall'.ret = "value"
                   /\ lastCall'.val = StoredDraft(store)
                   /\ ~lastCall'.lsRead
                   /\ lsProgress' = lsProgress
          /\ lastCall'.lsRead <=> ~C8_DraftRead
          /\ C8_Rest]_vars

\* A getOnboardingProgress that returned the draft and left the legacy
\* progress in localStorage unread.
C8_Witness ==
    /\ lastCall.op = "getOnboardingProgress"
    /\ lastCall.ret = "value"
    /\ ~lastCall.lsRead
    /\ lastCall.val = StoredDraft(store)
    /\ lsProgress # Absent

\* C9: when the mount-time load has finished, formData is the progress that
\* getOnboardingProgress returned, or the default claims when it returned
\* none; when initializeOnboardingDB failed, formData is the default claims
\* and dbReady is false; a finished load has set formData, and a load that
\* has not finished waits for a pending open request.
C9_LoadFallsBackToDefaults ==
    /\ (lastCall.op = "loadData" /\ pc = "done")
          => /\ dbReady
             /\ formData = IF lastCall.ret = "value" THEN lastCall.val
                           ELSE DefaultClaims
    /\ pc = "caught" => (formData = DefaultClaims /\ ~dbReady)
    /\ pc \in {"done", "caught"} => formData # EmptyObj
    /\ pc = "awaitInit" => (initState = "pending" /\ initCaller = "hook")

\* A load whose initializeOnboardingDB failed.
C9_Witness ==
    /\ lastCall.op = "loadData"
    /\ lastCall.ret = "caught"
    /\ pc = "caught"
    /\ formData = DefaultClaims
    /\ ~dbReady

\* C10: checkOnboardingStatus returns true without a request when the flag
\* onboardingComplete is "true"; otherwise it makes the request and returns
\* its isComplete, or false when the request or its JSON parsing failed; it
\* never throws and leaves localStorage as it was.
C10_StatusCheck ==
    [][lastCall'.op = "checkOnboardingStatus" =>
          /\ UNCHANGED <<lsComplete, lsProgress>>
          /\ lastCall'.ret \in {"true", "false"}
          /\ lsComplete = "true"
                => (lastCall'.ret = "true" /\ lastCall'.api = "none")
          /\ lsComplete # "true"
                => /\ lastCall'.api # "none"
                   /\ lastCall'.api \in {"true", "false"}
                         => lastCall'.ret = lastCall'.api
                   /\ lastCall'.api \in {"fetchFail", "jsonFail"}
                         => lastCall'.ret = "false"]_vars

\* A status check whose request failed returned false.
C10_Witness ==
    /\ lastCall.op = "checkOnboardingStatus"
    /\ lastCall.api = "fetchFail"
    /\ lastCall.ret = "false"
    /\ lsComplete = "absent"

\* C11: saveOnboardingProgress never calls saveProfileData, whether its
\* saveDraft succeeded, failed, or there was no database to save to.
C11_AutoSaveIsLocal ==
    lastCall.op = "saveOnboardingProgress" => lastCall.profile = "none"

\* An auto-save made before any database instance exists: it went to
\* localStorage and made no Dataverse call.
C11_Witness ==
    /\ lastCall.op = "saveOnboardingProgress"
    /\ ~dbInstance
    /\ lastCall.fallback
    /\ lastCall.sd = "none"
    /\ lastCall.profile = "none"

\* C12: after clearOnboardingData a getOnboardingProgress (its requests
\* succeeding) returns null, the legacy key is gone, and the flag
\* onboardingComplete is as it was before the call.
C12_ClearRemovesProgress ==
    [][lastCall'.op = "clearOnboardingData" =>
          /\ lsComplete' = lsComplete
          /\ lsProgress' = Absent
          /\ getOnboardingProgress(dbInstance', db', store', lsProgress',
                                   lsComplete', TRUE, TRUE).ret = "null"]_vars

\* C13: saveDraft and loadDraft end with a value, never an exception; on an
\* instance that was not opened they return false and null without a
\* transaction; on an opened one they start a transaction, a failed read
\* gives null, saveDraft returns true only with its record stored, and after
\* a saveDraft that returned false the store is as it was; loadDraft never
\* changes the store.
C13_FailuresAreValues ==
    [][/\ lastCall'.op = "saveDraft" =>
             /\ lastCall'.ret \in {"true", "false"}
             /\ db = "null" => (lastCall'.ret = "false" /\ ~lastCall'.tx)
             /\ db = "open" => lastCall'.tx
             /\ lastCall'.ret = "true"
                   => store' = {[id |-> "current-draft",
                                 data |-> lastCall'.arg]}
             /\ lastCall'.ret = "false" => store' = store
       /\ lastCall'.op = "loadDraft" =>
             /\ lastCall'.ret \in {"value", "null"}
             /\ db = "null" => (lastCall'.ret = "null" /\ ~lastCall'.tx)
             /\ db = "open" => lastCall'.tx
             /\ lastCall'.readErr
                   => (lastCall'.ret = "null" /\ lastCall'.val = Null)
             /\ store' = store]_vars

\* A saveDraft that failed on an opened database holding a draft: it
\* returned false and the draft is still the one stored before.
C13_Witness ==
    /\ lastCall.op = "saveDraft"
    /\ lastCall.ret = "false"
    /\ lastCall.tx
    /\ db = "open"
    /\ lastCall.pre # Null
    /\ StoredDraft(store) = lastCall.pre

====
